---- MODULE Spec2Model ----
(***************************************************************************)
(* Model of the summarisation core of daily_report.py: the retrying        *)
(* client hf_post, the response extractor, the bullet splitter, the        *)
(* deduplication loops and the pipeline summarize_team_tasks               *)
(* (dedup -> direct call -> chunk calls -> combine call -> raw fallback).  *)
(* Python str values are TLA+ strings; a Python value of another type is a *)
(* record tagged with its type.                                            *)
(***************************************************************************)
EXTENDS Integers, Sequences, FiniteSets, TLC

(* ------------------------------ bounds -------------------------------- *)

\* longest task list drawn from RawTasks
MaxRaw == 2
\* largest number of distinct generated entries in a task list
MaxTasks == 15
\* max_points runs over 1..MaxPoints and the default
MaxPoints == 2
\* largest max_retries handed to hf_post when it is called on its own
MaxRetries == 4

(* ------------------------- program constants -------------------------- *)

backoff == 2
DIRECT_RETRIES == 3
CHUNK_RETRIES == 2
COMBINE_RETRIES == 2
DIRECT_MAX_ENTRIES == 6
DIRECT_MAX_LEN == 1200
chunk_size == 10
CHUNK_TEXT_LIMIT == 1000
MIN_BULLET_LEN == 10
DEFAULT_MAX_POINTS == 5

(* --------------------------- Python values ---------------------------- *)

PyNone == [type |-> "NoneType"]
PyInt == [type |-> "int"]
PyStr(s) == [type |-> "str", val |-> s]
PyList(items) == [type |-> "list", items |-> items]
PyDict(fields) == [type |-> "dict", fields |-> fields]

\* Python truthiness of None / str values (`if summary_text:`, `x or y`)
Truthy(v) == v.type = "str" /\ v.val # ""

(* ------------------------- string primitives -------------------------- *)

Min(a, b) == IF a <= b THEN a ELSE b
Max(a, b) == IF a >= b THEN a ELSE b

CharAt(s, k) == SubSeq(s, k, k)

\* the (ASCII) whitespace that str.strip() strips and \s matches
Spaces == {" ", "\t", "\n", "\r"}
IsSpace(c) == c \in Spaces
\* the character class [\.\!\?] and the argument of rstrip('.!?')
IsTerminal(c) == c \in {".", "!", "?"}
\* the character class [\n;]
LineSeps == {"\n", ";"}
IsLineSep(c) == c \in LineSeps

\* s.strip()
Strip(s) ==
  LET keep == {k \in 1..Len(s) : ~IsSpace(CharAt(s, k))}
  IN  IF keep = {} THEN ""
      ELSE LET lo == CHOOSE k \in keep : \A m \in keep : k <= m
               hi == CHOOSE k \in keep : \A m \in keep : k >= m
           IN  SubSeq(s, lo, hi)

\* s.rstrip('.!?')
RStripTerminal(s) ==
  LET keep == {k \in 1..Len(s) : ~IsTerminal(CharAt(s, k))}
  IN  IF keep = {} THEN ""
      ELSE SubSeq(s, 1, CHOOSE k \in keep : \A m \in keep : k >= m)

\* s[:n] for n >= 0 on a str
StrPrefix(s, n) == SubSeq(s, 1, Min(n, Len(s)))

\* lst[:n]: the first n items, or all but the last -n when n is negative
ListPrefix(lst, n) ==
  IF n >= 0 THEN SubSeq(lst, 1, Min(n, Len(lst)))
  ELSE SubSeq(lst, 1, Max(0, Len(lst) + n))

\* lst[i:i+n] with i a 0-based index
ListSlice(lst, i, n) == SubSeq(lst, i + 1, Min(i + n, Len(lst)))

RECURSIVE Join(_, _)
\* sep.join(lst)
Join(sep, lst) ==
  IF lst = <<>> THEN ""
  ELSE IF Len(lst) = 1 THEN lst[1]
  ELSE lst[1] \o sep \o Join(sep, Tail(lst))

RECURSIVE SumLen(_)
\* sum(len(x) for x in lst)
SumLen(lst) == IF lst = <<>> THEN 0 ELSE Len(lst[1]) + SumLen(Tail(lst))

RECURSIVE Pow(_, _)
\* b ** e for e >= 0
Pow(b, e) == IF e = 0 THEN 1 ELSE b * Pow(b, e - 1)

\* the end of the maximal run of characters of the class that starts at k
\* (the greedy + of the two patterns)
RunEnd(s, k, class) ==
  CHOOSE j \in k..Len(s) :
    /\ \A m \in k..j : CharAt(s, m) \in class
    /\ j = Len(s) \/ CharAt(s, j + 1) \notin class

RECURSIVE SplitSentences(_)
\* re.split(r'(?<=[\.\!\?])\s+', s): cut at every whitespace run that follows
\* a terminal character; the run is dropped, the terminal stays
SplitSentences(s) ==
  LET cuts == {k \in 2..Len(s) :
                 IsSpace(CharAt(s, k)) /\ IsTerminal(CharAt(s, k - 1))}
  IN  IF cuts = {} THEN <<s>>
      ELSE LET k == CHOOSE c \in cuts : \A m \in cuts : c <= m
               j == RunEnd(s, k, Spaces)
           IN  <<SubSeq(s, 1, k - 1)>> \o SplitSentences(SubSeq(s, j + 1, Len(s)))

RECURSIVE SplitLines(_)
\* re.split(r'[\n;]+', s)
SplitLines(s) ==
  LET cuts == {k \in 1..Len(s) : IsLineSep(CharAt(s, k))}
  IN  IF cuts = {} THEN <<s>>
      ELSE LET k == CHOOSE c \in cuts : \A m \in cuts : c <= m
               j == RunEnd(s, k, LineSeps)
           IN  <<SubSeq(s, 1, k - 1)>> \o SplitLines(SubSeq(s, j + 1, Len(s)))

RECURSIVE SentenceBulletsUnfiltered(_)
\* SentenceBullets without the `len(s.strip()) > 10` filter
SentenceBulletsUnfiltered(sentences) ==
  IF sentences = <<>> THEN <<>>
  ELSE <<RStripTerminal(Strip(sentences[1]))>> \o SentenceBulletsUnfiltered(Tail(sentences))

RECURSIVE SentenceBullets(_)
\* [s.strip().rstrip('.!?') for s in sentences if len(s.strip()) > 10]
SentenceBullets(sentences) ==
  IF sentences = <<>> THEN <<>>
  ELSE LET s == Strip(sentences[1])
       IN  (IF Len(s) > MIN_BULLET_LEN THEN <<RStripTerminal(s)>> ELSE <<>>)
             \o SentenceBullets(Tail(sentences))

RECURSIVE PartBullets(_)
\* [p.strip() for p in parts if len(p.strip()) > 10]
PartBullets(parts) ==
  IF parts = <<>> THEN <<>>
  ELSE LET p == Strip(parts[1])
       IN  (IF Len(p) > MIN_BULLET_LEN THEN <<p>> ELSE <<>>)
             \o PartBullets(Tail(parts))

\* split_to_bullets without the final clean[:max_points]
split_to_bullets_untruncated(text, maxp) ==
  IF text = "" THEN <<>>
  ELSE LET clean == SentenceBullets(SplitSentences(Strip(text)))
       IN  IF Len(clean) = 0 THEN PartBullets(SplitLines(text)) ELSE clean

\* split_to_bullets(text, max_points), text a str
split_to_bullets(text, maxp) ==
  IF text = "" THEN <<>>
  ELSE LET clean == SentenceBullets(SplitSentences(Strip(text)))
       IN  IF Len(clean) = 0
           THEN ListPrefix(PartBullets(SplitLines(text)), maxp)
           ELSE ListPrefix(clean, maxp)

(* ------------------------- response extractor ------------------------- *)

SummaryKeys == <<"summary_text", "generated_text", "text">>

\* for key in (...): if key in d and isinstance(d[key], str): return d[key]
\* yields the index of the first such key, 0 when there is none
FirstTextKey(d) ==
  LET hits == {k \in 1..Len(SummaryKeys) :
                 /\ SummaryKeys[k] \in DOMAIN d.fields
                 /\ d.fields[SummaryKeys[k]].type = "str"}
  IN  IF hits = {} THEN 0 ELSE CHOOSE k \in hits : \A m \in hits : k <= m

\* extract_summary_from_response(resp): a str value or None
extract_summary_from_response(resp) ==
  IF resp.type = "NoneType" THEN PyNone
  ELSE IF resp.type = "str" THEN resp
  ELSE IF resp.type = "list" /\ Len(resp.items) > 0
            /\ resp.items[1].type = "dict" /\ FirstTextKey(resp.items[1]) # 0
       THEN resp.items[1].fields[SummaryKeys[FirstTextKey(resp.items[1])]]
  ELSE IF resp.type = "list" /\ Len(resp.items) > 0 /\ resp.items[1].type = "str"
       THEN resp.items[1]
  ELSE IF resp.type = "dict" /\ FirstTextKey(resp) # 0
       THEN resp.fields[SummaryKeys[FirstTextKey(resp)]]
  ELSE PyNone

(* ------------------------------ dedup --------------------------------- *)

InList(x, lst) == \E k \in 1..Len(lst) : lst[k] = x

RECURSIVE DedupLoopNoSeen(_, _)
\* DedupLoop without the `s not in seen` test
DedupLoopNoSeen(tasks, dedup) ==
  IF tasks = <<>> THEN dedup
  ELSE LET s == Strip(tasks[1])
       IN  DedupLoopNoSeen(Tail(tasks), IF s # "" THEN Append(dedup, s) ELSE dedup)

RECURSIVE DedupLoopKeepBlank(_, _)
\* DedupLoop without the `s and` test
DedupLoopKeepBlank(tasks, dedup) ==
  IF tasks = <<>> THEN dedup
  ELSE LET s == Strip(tasks[1])
       IN  DedupLoopKeepBlank(Tail(tasks),
                              IF ~InList(s, dedup) THEN Append(dedup, s) ELSE dedup)

RECURSIVE DedupLoop(_, _)
\* the loop of summarize_team_tasks: every trimmed non-blank value not yet
\* seen is appended (tasks hold str values, on which str() changes nothing)
DedupLoop(tasks, dedup) ==
  IF tasks = <<>> THEN dedup
  ELSE LET s == Strip(tasks[1])
       IN  DedupLoop(Tail(tasks),
                     IF s # "" /\ ~InList(s, dedup) THEN Append(dedup, s) ELSE dedup)

RECURSIVE BulletifyLoop(_, _, _)
\* the loop of bulletify_tasks: as above, and it leaves the loop as soon as
\* max_bullets values are kept (tested after each item)
BulletifyLoop(tasks, dedup, max_bullets) ==
  IF tasks = <<>> THEN dedup
  ELSE LET s == Strip(tasks[1])
           d == IF s # "" /\ ~InList(s, dedup) THEN Append(dedup, s) ELSE dedup
       IN  IF Len(d) >= max_bullets THEN d
           ELSE BulletifyLoop(Tail(tasks), d, max_bullets)

\* bulletify_tasks leaving its loop one item late (`>` for `>=`)
bulletify_tasks_late_break(tasks, max_bullets) == BulletifyLoop(tasks, <<>>, max_bullets + 1)

bulletify_tasks(tasks, max_bullets) == BulletifyLoop(tasks, <<>>, max_bullets)

RECURSIVE BulletLines(_)
\* [f"- {p}" for p in points]
BulletLines(points) ==
  IF points = <<>> THEN <<>> ELSE <<"- " \o points[1]>> \o BulletLines(Tail(points))

\* "\n".join([f"- {p}" for p in points])
Render(points) == Join("\n", BulletLines(points))

(* ------------------------------- state -------------------------------- *)

VARIABLES
  pc,               \* where the run stands: "start", "direct", "chunk", "combine",
                    \* "done", "escaped" (an exception left the pipeline);
                    \* "client" (hf_post called on its own); "split", "split_done"
  tasks_list,       \* summarize_team_tasks' argument
  max_points,       \* summarize_team_tasks' / split_to_bullets' argument
  text,             \* split_to_bullets' argument when it is called on its own
  dedup,            \* the local dedup of summarize_team_tasks
  i,                \* the chunk loop's index
  chunk_summaries,  \* the local chunk_summaries
  chunk_kinds,      \* history: how each collected string came about: "summary",
                    \* "no_summary", or the exception the chunk's call raised
  points,           \* the list whose items the returned string joins
  result,           \* the returned string
  calls,            \* history: the hf_post calls made, in order
  all_failed,       \* history: no hf_post attempt of the run has returned a response
  hf                \* the running (or last) hf_post call

vars == <<pc, tasks_list, max_points, text, dedup, i, chunk_summaries, chunk_kinds,
          points, result, calls, all_failed, hf>>

(* ------------------------------- inputs ------------------------------- *)

\* raw task values: a blank one, a value with and without surrounding
\* whitespace, a second value
RawTasks == {" \n", "Fix login bug", "  Fix login bug ", "Write docs\n"}

RECURSIVE SeqsUpTo(_, _)
SeqsUpTo(S, n) ==
  IF n = 0 THEN {<<>>}
  ELSE LET shorter == SeqsUpTo(S, n - 1)
       IN  shorter \cup {Append(q, v) : q \in {r \in shorter : Len(r) = n - 1}, v \in S}

Digits == <<"0", "1", "2", "3", "4", "5", "6", "7", "8", "9">>

RECURSIVE Filler(_)
Filler(n) ==
  IF n <= 0 THEN ""
  ELSE LET half == Filler(n \div 2)
       IN  half \o half \o (IF n % 2 = 1 THEN "x" ELSE "")

\* length of a short generated entry
ShortLen == 12
\* length of a long generated entry: DIRECT_MAX_ENTRIES of them total DIRECT_MAX_LEN
LongLen == DIRECT_MAX_LEN \div DIRECT_MAX_ENTRIES

\* the k-th generated entry of length len: "Task 07 xxxx..."
Entry(k, len) ==
  "Task " \o Digits[(k \div 10) + 1] \o Digits[(k % 10) + 1] \o " " \o Filler(len - 8)

GenTasks(n, len) == [k \in 1..n |-> Entry(k, len)]

GenSizes ==
  {n \in 1..MaxTasks :
     \/ n \in {1, DIRECT_MAX_ENTRIES - 1, DIRECT_MAX_ENTRIES, DIRECT_MAX_ENTRIES + 1}
     \/ n \in {chunk_size, chunk_size + 1, 15}
     \/ n = MaxTasks}

\* the values of max_points tried
PointChoices == (1..MaxPoints) \cup {DEFAULT_MAX_POINTS}

TaskLists ==
  SeqsUpTo(RawTasks, MaxRaw) \cup {GenTasks(n, len) : n \in GenSizes, len \in {ShortLen, LongLen}}

SevenSentences ==
  "Completed the login fix. Wrote the API docs! Reviewed pull requests?\nShipped release 2.1 today. Tiny. Closed nine support tickets. Updated the sprint board. Planned the next sprint."

\* what resp.json() can yield: the shapes the extractor knows and some it does not
Responses ==
  { PyStr("Did A. Did B! Did C?"),
    PyList(<<PyDict([summary_text |-> PyStr(SevenSentences)])>>),
    PyDict([text |-> PyStr("Too short."), summary_text |-> PyInt]),
    PyList(<<PyStr("")>>),
    PyDict([error |-> PyStr("Model is loading")]) }

\* texts handed to split_to_bullets when it is called on its own
SplitTexts ==
  { "", "Did A. Did B! Did C?", "Did A; Did B", SevenSentences, "Too short.",
    "Deployed the build; Updated the tracker\nClosed tickets today",
    "Finished task A. Finished task B! Finished task C?",
    "Fixed the bug .  Then more work!? ok. ", "...........",
    "No punctuation at all in here" }

(* ------------------------------ hf_post ------------------------------- *)

HfIdle ==
  [status |-> "idle", text |-> "", max_retries |-> 0, attempt |-> 0,
   sleeps |-> <<>>, outcomes |-> <<>>, exc |-> "", resp |-> PyNone]

\* hf_post(text, max_retries=n) entered: no attempt made yet
HfCall(t, n) == [HfIdle EXCEPT !.status = "running", !.text = t, !.max_retries = n]

\* a linear backoff, backoff * attempt
SleepForLinear(attempt) == backoff * attempt

\* time.sleep(backoff ** attempt)
SleepFor(attempt) == Pow(backoff, attempt)

\* `if attempt == max_retries: raise`
LastAttempt(attempt, max_retries) == attempt = max_retries

\* what one pass of the retry loop can meet
Outcomes ==
  {[kind |-> k, resp |-> PyNone] : k \in {"RequestException", "ValueError"}}
    \cup {[kind |-> "response", resp |-> r] : r \in Responses}

\* One pass of the retry loop: requests.post, raise_for_status and resp.json().
\*   "RequestException": the post, the status check or (requests >= 2.27) the
\*      JSON decoding raised a RequestException: re-raised on the last attempt,
\*      otherwise the loop sleeps and goes round again;
\*   "ValueError": the JSON decoding raised outside that family (older
\*      requests): nothing in hf_post catches it;
\*   a response: returned to the caller.
hf_post_attempt ==
  /\ hf.status = "running"
  /\ hf.attempt < hf.max_retries
  /\ \E outcome \in Outcomes :
       LET attempt == hf.attempt + 1
           tried == [hf EXCEPT !.attempt = attempt, !.outcomes = Append(@, outcome)]
       IN  /\ hf' = IF outcome.kind = "response"
                      THEN [tried EXCEPT !.status = "returned", !.resp = outcome.resp]
                    ELSE IF outcome.kind = "ValueError"
                      THEN [tried EXCEPT !.status = "raised", !.exc = "ValueError"]
                    ELSE IF LastAttempt(attempt, hf.max_retries)
                      THEN [tried EXCEPT !.status = "raised", !.exc = "RequestException"]
                    ELSE [tried EXCEPT !.sleeps = Append(@, SleepFor(attempt))]
           /\ all_failed' = (all_failed /\ outcome.kind # "response")
  /\ UNCHANGED <<pc, tasks_list, max_points, text, dedup, i, chunk_summaries,
                 chunk_kinds, points, result, calls>>

\* The loop ran no pass at all (max_retries < 1): the raise after the loop.
hf_post_exhausted ==
  /\ hf.status = "running"
  /\ hf.max_retries < 1
  /\ hf' = [hf EXCEPT !.status = "raised", !.exc = "RuntimeError"]
  /\ UNCHANGED <<pc, tasks_list, max_points, text, dedup, i, chunk_summaries,
                 chunk_kinds, points, result, calls, all_failed>>

HfFinished == hf.status \in {"returned", "raised"}

(* ----------------------- summarize_team_tasks ------------------------- *)

SENTINEL == "- No tasks reported."

\* `except requests.exceptions.RequestException` in place of `except Exception`
CaughtRequestOnly(exc) == exc = "RequestException"

\* `except Exception`: every exception hf_post can raise derives from Exception
Caught(exc) == exc \in {"RequestException", "ValueError", "RuntimeError"}

\* the eligibility test with `joined_len <= 1200`
DirectEligibleInclusive(d) == Len(d) <= DIRECT_MAX_ENTRIES /\ SumLen(d) <= DIRECT_MAX_LEN

\* `if len(dedup) <= 6 and joined_len < 1200`
DirectEligible(d) == Len(d) <= DIRECT_MAX_ENTRIES /\ SumLen(d) < DIRECT_MAX_LEN

\* the chunk dedup[i:i+chunk_size] and its text
Chunk(d, idx) == ListSlice(d, idx, chunk_size)
ChunkText(d, idx) == Join(" . ", Chunk(d, idx))

\* the chunk loop ending one entry early
MoreChunksShort(d, idx) == idx + chunk_size < Len(d) - 1

\* `for i in range(0, len(dedup), chunk_size)`: another chunk follows the one at idx
MoreChunks(d, idx) == idx + chunk_size < Len(d)

\* `chunk_summary or chunk_text[:1000]`
ChunkSummaryOr(summary, chunk_text) ==
  IF Truthy(summary) THEN summary.val ELSE StrPrefix(chunk_text, CHUNK_TEXT_LIMIT)

\* the except branch of the chunk loop: `" . ".join(chunk)`
ChunkOnError(chunk) == Join(" . ", chunk)

\* the text a finished call yields to the pipeline: the extracted summary of a
\* returned response, nothing (None) after a caught exception
Summary == IF hf.status = "returned" THEN extract_summary_from_response(hf.resp) ELSE PyNone

\* `if summary_text: points = split_to_bullets(...)`, <<>> when that is skipped
PointsOf(summary) == IF Truthy(summary) THEN split_to_bullets(summary.val, max_points) ELSE <<>>

CallRec(stage, t, n) == [stage |-> stage, text |-> t, max_retries |-> n]

\* enter (or go on with) the chunk loop at index idx: the hf_post call of that chunk
StartChunk(d, idx) ==
  /\ pc' = "chunk"
  /\ i' = idx
  /\ hf' = HfCall(ChunkText(d, idx), CHUNK_RETRIES)
  /\ calls' = Append(calls, CallRec("chunk", ChunkText(d, idx), CHUNK_RETRIES))

Return(pts) ==
  /\ pc' = "done"
  /\ hf' = HfIdle
  /\ points' = pts
  /\ result' = Render(pts)

\* Lines 95-109: the dedup loop, the sentinel, and the choice between the
\* direct call and the chunk loop.
summarize_team_tasks ==
  /\ pc = "start"
  /\ dedup' = DedupLoop(tasks_list, <<>>)
  /\ IF dedup' = <<>>
       THEN /\ pc' = "done"
            /\ points' = <<SubSeq(SENTINEL, 3, Len(SENTINEL))>>
            /\ result' = SENTINEL
            /\ UNCHANGED <<i, hf, calls>>
     ELSE IF DirectEligible(dedup')
       THEN /\ pc' = "direct"
            /\ hf' = HfCall(Join(" . ", dedup'), DIRECT_RETRIES)
            /\ calls' = Append(calls, CallRec("direct", Join(" . ", dedup'), DIRECT_RETRIES))
            /\ UNCHANGED <<i, points, result>>
     ELSE /\ StartChunk(dedup', 0)
          /\ UNCHANGED <<points, result>>
  /\ UNCHANGED <<tasks_list, max_points, text, chunk_summaries, chunk_kinds, all_failed>>

\* Lines 109-116: the direct call is over.
direct_return ==
  /\ pc = "direct"
  /\ HfFinished
  /\ IF hf.status = "raised" /\ ~Caught(hf.exc)
       THEN /\ pc' = "escaped"
            /\ UNCHANGED <<i, hf, calls, points, result>>
     ELSE IF PointsOf(Summary) # <<>>
       THEN /\ Return(PointsOf(Summary))
            /\ UNCHANGED <<i, calls>>
     ELSE /\ StartChunk(dedup, 0)
          /\ UNCHANGED <<points, result>>
  /\ UNCHANGED <<tasks_list, max_points, text, dedup, chunk_summaries, chunk_kinds, all_failed>>

\* Lines 120-133: the call of chunk i is over; its string is collected and the
\* loop goes on to the next chunk or, after the last, to the combine call.
chunk_return ==
  /\ pc = "chunk"
  /\ HfFinished
  /\ IF hf.status = "raised" /\ ~Caught(hf.exc)
       THEN /\ pc' = "escaped"
            /\ UNCHANGED <<i, hf, calls, chunk_summaries, chunk_kinds>>
     ELSE /\ chunk_summaries' =
               Append(chunk_summaries,
                      IF hf.status = "raised" THEN ChunkOnError(Chunk(dedup, i))
                      ELSE ChunkSummaryOr(Summary, hf.text))
          /\ chunk_kinds' =
               Append(chunk_kinds,
                      IF hf.status = "raised" THEN hf.exc
                      ELSE IF Truthy(Summary) THEN "summary" ELSE "no_summary")
          /\ IF MoreChunks(dedup, i)
               THEN StartChunk(dedup, i + chunk_size)
             ELSE /\ pc' = "combine"
                  /\ hf' = HfCall(Join(" ", chunk_summaries'), COMBINE_RETRIES)
                  /\ calls' = Append(calls, CallRec("combine", Join(" ", chunk_summaries'),
                                                    COMBINE_RETRIES))
                  /\ UNCHANGED i
  /\ UNCHANGED <<tasks_list, max_points, text, dedup, points, result, all_failed>>

\* Lines 133-143: the combine call is over; its bullets, or else the first
\* entries of dedup, are returned.
combine_return ==
  /\ pc = "combine"
  /\ HfFinished
  /\ IF hf.status = "raised" /\ ~Caught(hf.exc)
       THEN /\ pc' = "escaped"
            /\ UNCHANGED <<hf, points, result>>
     ELSE IF PointsOf(Summary) # <<>>
       THEN Return(PointsOf(Summary))
     ELSE Return(bulletify_tasks(dedup, max_points))
  /\ UNCHANGED <<tasks_list, max_points, text, dedup, i, chunk_summaries, chunk_kinds,
                 calls, all_failed>>

\* split_to_bullets called on its own
split_call ==
  /\ pc = "split"
  /\ pc' = "split_done"
  /\ points' = split_to_bullets(text, max_points)
  /\ UNCHANGED <<tasks_list, max_points, text, dedup, i, chunk_summaries, chunk_kinds,
                 result, calls, all_failed, hf>>

(* --------------------------- specification ---------------------------- *)

Init ==
  /\ max_points \in PointChoices
  /\ dedup = <<>>
  /\ i = 0
  /\ chunk_summaries = <<>>
  /\ chunk_kinds = <<>>
  /\ points = <<>>
  /\ result = ""
  /\ all_failed = TRUE
  /\ \/ /\ pc = "start"
        /\ tasks_list \in TaskLists
        /\ text = ""
        /\ hf = HfIdle
        /\ calls = <<>>
     \/ /\ pc = "client"
        /\ max_points = 1
        /\ tasks_list = <<>>
        /\ text = ""
        /\ \E n \in 0..MaxRetries :
             /\ hf = HfCall("Fix login bug", n)
             /\ calls = <<CallRec("client", "Fix login bug", n)>>
     \/ /\ pc = "split"
        /\ tasks_list = <<>>
        /\ text \in SplitTexts
        /\ hf = HfIdle
        /\ calls = <<>>

Next ==
  \/ summarize_team_tasks
  \/ hf_post_attempt
  \/ hf_post_exhausted
  \/ direct_return
  \/ chunk_return
  \/ combine_return
  \/ split_call

Spec == Init /\ [][Next]_vars

(* ------------------------------ claims -------------------------------- *)

\* ceil(n / 10): the number of chunks of n entries
NChunks(n) == (n + 9) \div 10

\* the stages of the calls made so far, in order
Stages == [k \in 1..Len(calls) |-> calls[k].stage]

CallsAt(stage) == {k \in 1..Len(calls) : calls[k].stage = stage}

\* the text of the c-th chunk (c = 1, 2, ...) of dedup, joined as raw text
RawChunkText(c) == Join(" . ", SubSeq(dedup, 10 * (c - 1) + 1, Min(10 * c, Len(dedup))))

\* C1: for a non-empty task list, whatever the remote calls did, the returned
\* string joins at least 1 and at most max_points bullets and is not empty.
C1_BulletCountBounded ==
  (pc = "done" /\ tasks_list # <<>>) =>
    /\ Len(points) >= 1
    /\ Len(points) <= max_points
    /\ result = Render(points)
    /\ result # ""

\* C1's case: a summary of more sentences than max_points was returned, cut to max_points
C1_Witness ==
  /\ pc = "done"
  /\ ~all_failed
  /\ max_points = 2
  /\ points = <<"Completed the login fix", "Wrote the API docs">>

\* the pipeline has been entered and has not returned
InPipeline == pc \in {"start", "direct", "chunk", "combine"}

\* one of the pipeline's steps can be taken: its first, a pass of the retry
\* loop (or the raise after an empty loop), or the handling of a finished call
CanStep ==
  \/ pc = "start"
  \/ hf.status = "running" /\ (hf.attempt < hf.max_retries \/ hf.max_retries < 1)
  \/ hf.status \in {"returned", "raised"}

\* an upper bound on the steps a run has left: 4 per call not yet made (3
\* passes at most and the handling of the outcome), the passes the running
\* call has left and the handling of its outcome
StepsLeft ==
  LET chunks == NChunks(IF pc = "start" THEN Len(tasks_list) ELSE Len(dedup))
      calls_left == IF pc = "start" THEN chunks + 2
                    ELSE IF pc = "direct" THEN chunks + 1
                    ELSE IF pc = "chunk" THEN chunks - (i \div 10)
                    ELSE 0
      this_call == IF hf.status = "running" THEN Max(hf.max_retries - hf.attempt, 1)
                   ELSE 0
      handling == IF InPipeline \/ pc = "split" THEN 1 ELSE 0
  IN  4 * calls_left + this_call + handling

\* C2: no exception ever leaves the pipeline; a run that has not returned can
\* always take a step; every step lowers the bound StepsLeft on the steps
\* left, so every run ends, and it ends by returning a non-empty result.
C2_Total ==
  /\ [](/\ pc # "escaped"
        /\ InPipeline => CanStep
        /\ StepsLeft >= 0
        /\ pc = "done" => result # "")
  /\ [][StepsLeft' < StepsLeft]_vars

\* C2's case: a run whose every remote call failed has returned all the same
C2_Witness ==
  /\ pc = "done"
  /\ all_failed
  /\ "direct" \in {calls[k].stage : k \in 1..Len(calls)}
  /\ "combine" \in {calls[k].stage : k \in 1..Len(calls)}

RequestFailures(outs) == \A k \in 1..Len(outs) : outs[k].kind = "RequestException"

\* the waits after failed attempts 1..k: 2, 4, ..., 2^k
Waits(k) == [j \in 1..k |-> 2 ^ j]

\* C3: hf_post(max_retries = N) makes at most N attempts; a response at
\* attempt k after k-1 request failures is returned at once, after waits of
\* 2^1 .. 2^(k-1); N request failures raise after exactly N attempts and
\* waits of 2^1 .. 2^(N-1), with no wait after the last.
C3_RetrySchedule ==
  hf.status # "idle" =>
    LET N == hf.max_retries
        k == hf.attempt
    IN  /\ k <= Max(N, 0)
        /\ Len(hf.outcomes) = k
        /\ RequestFailures(SubSeq(hf.outcomes, 1, k - 1))
        /\ hf.status = "running" =>
             /\ RequestFailures(hf.outcomes)
             /\ k < N \/ N < 1
             /\ hf.sleeps = Waits(k)
        /\ hf.status = "returned" =>
             /\ k >= 1
             /\ hf.outcomes[k].kind = "response"
             /\ hf.resp = hf.outcomes[k].resp
             /\ hf.sleeps = Waits(k - 1)
        /\ (hf.status = "raised" /\ hf.exc = "RequestException") =>
             /\ k = N
             /\ RequestFailures(hf.outcomes)
             /\ hf.sleeps = Waits(N - 1)
        /\ (N >= 1 /\ k = N /\ RequestFailures(hf.outcomes)) =>
             hf.status = "raised" /\ hf.exc = "RequestException"
        /\ (N < 1 /\ hf.status # "running") => hf.status = "raised" /\ k = 0

\* C3's case: max_retries = 4, three failures, then a response
C3_Witness ==
  /\ hf.max_retries = 4
  /\ hf.status = "returned"
  /\ hf.attempt = 4
  /\ hf.sleeps = <<2, 4, 8>>

\* C4: the string collected for a chunk whose call failed with its retries
\* exhausted is the chunk's raw text cut to 1000 characters, and so is never
\* longer than 1000 characters.
C4_FailedChunkTruncated ==
  \A c \in 1..Len(chunk_summaries) :
    chunk_kinds[c] = "RequestException" =>
      /\ chunk_summaries[c] = SubSeq(RawChunkText(c), 1, Min(1000, Len(RawChunkText(c))))
      /\ Len(chunk_summaries[c]) <= 1000

\* the outcome of the direct call is usable: a response from which a text is
\* extracted that splits into at least one bullet
DirectUsable ==
  /\ hf.status = "returned"
  /\ Truthy(extract_summary_from_response(hf.resp))
  /\ split_to_bullets(extract_summary_from_response(hf.resp).val, max_points) # <<>>

C5_DirectAttemptedIff ==
  (pc \in {"direct", "chunk", "combine", "done", "escaped"} /\ dedup # <<>>) =>
    /\ (CallsAt("direct") # {}) <=> (Len(dedup) <= 6 /\ SumLen(dedup) < 1200)
    /\ CallsAt("direct") \subseteq {1}
    /\ \A k \in CallsAt("direct") :
         calls[k].max_retries = 3 /\ calls[k].text = Join(" . ", dedup)
    /\ (pc = "done" /\ Stages = <<"direct">>) \/ CallsAt("chunk") # {} \/ pc = "direct"

C5_DirectOutcome ==
  (pc = "direct" /\ pc' # "direct") =>
    IF DirectUsable
      THEN /\ pc' = "done"
           /\ points' = split_to_bullets(extract_summary_from_response(hf.resp).val, max_points)
           /\ result' = Render(points')
           /\ calls' = calls
      ELSE /\ pc' = "chunk"
           /\ calls' = Append(calls, CallRec("chunk", RawChunkText(1), 2))

\* C5: the direct call is made iff dedup has at most 6 entries of total length
\* below 1200, with retry bound 3; a usable outcome is returned as it is, with
\* no chunk or combine call; any other outcome, and a skipped direct call,
\* lead into the chunk loop.
C5_DirectStage == [](C5_DirectAttemptedIff) /\ [][C5_DirectOutcome]_vars

\* C5's case: 6 entries of total length 1200 went past the direct call, and
\* 5 such entries had their direct call answered by a usable summary
C5_Witness ==
  /\ pc = "done"
  /\ Len(dedup) = 5
  /\ SumLen(dedup) = 1000
  /\ Stages = <<"direct">>
  /\ points = <<"Did A. Did B! Did C?">>

\* C6: when every remote call failed, the result is the first
\* min(max_points, n) entries of dedup, in order, one bullet each, and no call
\* follows the combine call; 15 entries with max_points = 5 skip the direct
\* call, make chunks of 10 and 5, and yield 5 entries.
C6_AllFailedFallback ==
  (pc = "done" /\ dedup # <<>> /\ all_failed) =>
    /\ points = SubSeq(dedup, 1, Min(max_points, Len(dedup)))
    /\ result = Render(points)
    /\ Stages = (IF Len(dedup) <= 6 /\ SumLen(dedup) < 1200 THEN <<"direct">> ELSE <<>>)
                  \o [c \in 1..NChunks(Len(dedup)) |-> "chunk"] \o <<"combine">>
    /\ (Len(dedup) = 15 /\ max_points = 5) =>
         /\ Stages = <<"chunk", "chunk", "combine">>
         /\ calls[1].text = Join(" . ", SubSeq(dedup, 1, 10))
         /\ calls[2].text = Join(" . ", SubSeq(dedup, 11, 15))
         /\ points = SubSeq(tasks_list, 1, 5)

\* C6's case: 15 distinct entries, max_points = 5, every call failed
C6_Witness ==
  /\ pc = "done"
  /\ all_failed
  /\ Len(dedup) = 15
  /\ max_points = 5
  /\ Len(points) = 5

AllBlank(tasks) == \A k \in 1..Len(tasks) : Strip(tasks[k]) = ""

\* C7 as stated: the sentinel bullet reads "No tasks reported".
C7_SentinelAsStated ==
  (pc = "done" /\ AllBlank(tasks_list)) =>
    /\ result = "- No tasks reported"
    /\ calls = <<>>

\* C7, amended: for an empty or all-blank task list the returned string is the
\* one line "- No tasks reported." (with its full stop), and no call was made.
C7_Sentinel ==
  /\ (pc \in {"direct", "chunk", "combine", "done", "escaped"} /\ AllBlank(tasks_list)) =>
       /\ pc = "done"
       /\ result = "- No tasks reported."
       /\ calls = <<>>
       /\ hf.status = "idle"
  /\ (pc = "done" /\ result = "- No tasks reported.") => AllBlank(tasks_list)

\* C7's case: a task list of blank entries has been answered
C7_Witness ==
  /\ pc = "done"
  /\ Len(tasks_list) = 2
  /\ AllBlank(tasks_list)

\* the first position of tasks at which the trimmed value is v
FirstAt(tasks, v) ==
  CHOOSE k \in 1..Len(tasks) :
    /\ Strip(tasks[k]) = v
    /\ \A m \in 1..(k - 1) : Strip(tasks[m]) # v

Deduplicated(tasks, d) ==
  /\ \A k \in 1..Len(d) : d[k] # "" /\ Strip(d[k]) = d[k]
  /\ \A j, k \in 1..Len(d) : j # k => d[j] # d[k]
  /\ {d[k] : k \in 1..Len(d)} = {Strip(tasks[k]) : k \in 1..Len(tasks)} \ {""}
  /\ \A j, k \in 1..Len(d) : j < k => FirstAt(tasks, d[j]) < FirstAt(tasks, d[k])
  /\ tasks = <<>> => d = <<>>

\* C8: the pipeline's dedup step yields the distinct non-blank trimmed values
\* of its input, each once, in the order of their first occurrence; and dedup
\* is not touched again.
C8_Dedup ==
  [][IF pc = "start" THEN Deduplicated(tasks_list, dedup') ELSE dedup' = dedup]_vars

\* C8's case: two entries equal after trimming, kept once
C8_Witness ==
  /\ pc = "direct"
  /\ tasks_list = <<"  Fix login bug ", "Fix login bug">>
  /\ dedup = <<"Fix login bug">>

\* C9 as stated: "Did A. Did B! Did C?" with max_points = 5 yields three bullets.
C9_ExampleAsStated ==
  (pc = "split_done" /\ text = "Did A. Did B! Did C?" /\ max_points = 5) =>
    points = <<"Did A", "Did B", "Did C">>

SevenBullets ==
  <<"Completed the login fix", "Wrote the API docs", "Reviewed pull requests",
    "Shipped release 2.1 today", "Closed nine support tickets",
    "Updated the sprint board", "Planned the next sprint">>

\* C9, amended: one bullet per sentence of more than 10 characters, in order,
\* trailing punctuation stripped, at most max_points of them; the three
\* sentences of "Did A. Did B! Did C?" have 6 characters each, so none is
\* kept and the newline/semicolon split returns the whole text as one bullet.
C9_SplitSentences ==
  pc = "split_done" =>
    /\ text = "Did A. Did B! Did C?" => points = <<"Did A. Did B! Did C?">>
    /\ text = "Finished task A. Finished task B! Finished task C?" =>
         points = SubSeq(<<"Finished task A", "Finished task B", "Finished task C">>,
                         1, Min(3, max_points))
    /\ text = SevenSentences => points = SubSeq(SevenBullets, 1, Min(7, max_points))
    /\ text = "Did A; Did B" => points = <<"Did A; Did B">>

\* C9's case: the splitter has run on the example with max_points = 5
C9_Witness ==
  /\ pc = "split_done"
  /\ text = "Did A. Did B! Did C?"
  /\ max_points = 5
  /\ Len(points) = 1

\* C10: in the chunk loop the chunks of 10 (the last one shorter) are called
\* one at a time in index order, one string is collected per chunk, failed or
\* not, and the one combine call comes after the last chunk, on the collected
\* strings joined in order.
C10_ChunksInOrder ==
  (pc \in {"chunk", "combine", "done"} /\ CallsAt("chunk") # {}) =>
    LET n == Len(dedup)
        first == IF CallsAt("direct") = {} THEN 0 ELSE 1
        made == Cardinality(CallsAt("chunk"))
    IN  /\ \A c \in 1..made :
             /\ calls[first + c] = CallRec("chunk", RawChunkText(c), 2)
             /\ c < NChunks(n) => Len(Chunk(dedup, 10 * (c - 1))) = 10
        /\ Len(chunk_kinds) = Len(chunk_summaries)
        /\ \A c \in 1..Len(chunk_summaries) :
             \/ chunk_kinds[c] = "summary" /\ chunk_summaries[c] # ""
             \/ /\ chunk_kinds[c] \in {"RequestException", "ValueError", "no_summary"}
                /\ chunk_summaries[c] = SubSeq(RawChunkText(c), 1, Len(chunk_summaries[c]))
                /\ chunk_summaries[c] # ""
        /\ pc = "chunk" =>
             /\ made = Len(chunk_summaries) + 1
             /\ made <= NChunks(n)
             /\ i = 10 * Len(chunk_summaries)
             /\ CallsAt("combine") = {}
             /\ Len(calls) = first + made
        /\ pc \in {"combine", "done"} =>
             /\ made = NChunks(n)
             /\ Len(chunk_summaries) = NChunks(n)
             /\ Len(calls) = first + made + 1
             /\ calls[Len(calls)] = CallRec("combine", Join(" ", chunk_summaries), 2)

\* C10's case: the first of two chunks failed, the second was summarised, and
\* the combine call was made on both strings
C10_Witness ==
  /\ pc = "done"
  /\ Len(dedup) = 11
  /\ chunk_kinds = <<"RequestException", "summary">>
  /\ chunk_summaries[1] = RawChunkText(1)

====
